---------------------------- MODULE Spec2Model ----------------------------
(***************************************************************************)
(* Model of the heat-grid pipeline: the NOAA ingestion (src/noaa_ingest.py),*)
(* the EIA ingestion (src/scripts/eia_ingest.py), the processing stages    *)
(* (src/processing.py), the combined table                                 *)
(* (src/scripts/base_combine_processing.py) and the flow that runs the     *)
(* ingestion (src/prefect_flow.py).  Every DuckDB table is a               *)
(* bag of rows (a function row -> number of copies), or NoTable when the   *)
(* table does not exist.  A nullable SQL value is a tuple: <<>> is NULL    *)
(* and <<v>> is the value v.  Temperatures are integers in hundredths of a *)
(* degree Celsius, timestamps are integers in hours since the epoch, and   *)
(* a DATE is a day number.                                                 *)
(***************************************************************************)
EXTENDS Integers, Sequences, FiniteSets, Bags, TLC

VARIABLES
    HEAT_THRESHOLD_C,     \* the module-level setting of processing.py
    eia_feed,             \* the rows fetch_eia_data returns (all_rows)
    eia_load_hourly,
    eia_daily_load,
    noaa_daily_temp,
    noaa_heatwave_flags,
    heat_load_daily,
    raised,               \* what the last stage call raised ("none" if nothing)
    noaa_csv,             \* the rows of data/*.csv (NoTable: no file there)
    noaa_hourly_raw,
    noaa_hourly_temp,
    noaa_hourly_avg,
    base_combine,
    eia_api,              \* what a request to the EIA API meets
    caught,               \* the exception the last stage call swallowed
    previous,             \* the processing tables the previous run left
    pc,                   \* where the running program stands
    eia_server,           \* the row list the server holds for each query
    query,                \* fetch_eia_data: the (parent, sub) pair in turn
    offset,               \* fetch_eia_data: offset
    all_rows              \* fetch_eia_data: all_rows

vars == <<HEAT_THRESHOLD_C, eia_feed, eia_load_hourly, eia_daily_load,
          noaa_daily_temp, noaa_heatwave_flags, heat_load_daily, raised,
          noaa_csv, noaa_hourly_raw, noaa_hourly_temp, noaa_hourly_avg,
          base_combine, eia_api, caught, previous, pc, eia_server, query,
          offset, all_rows>>

\* The state of the NOAA ingestion and of the combined table.
noaa_ingest_vars == <<noaa_csv, noaa_hourly_raw, noaa_hourly_temp,
                      noaa_hourly_avg, base_combine>>

\* The state of a fetch_eia_data call and of the server it talks to.
fetch_vars == <<eia_api, eia_server, query, offset, all_rows>>

\* What a stage of processing.py never touches: it has no try/except and
\* knows nothing of the ingestion.
ingest_vars == <<noaa_ingest_vars, fetch_vars, caught, previous>>

-----------------------------------------------------------------------------
(* Bounds of the model.                                                    *)

\* SpecHeat: one station over the calendar days 0 .. MaxDay-1, and two
\* stations over the days 0 .. MaxSharedDay-1 with at most MaxRows rows.
MaxDay == 5
MaxSharedDay == 4
MaxRows == 4
\* SpecThreshold: calendar days 0 .. MaxThresholdDay-1.
MaxThresholdDay == 2
\* SpecLoad: at most MaxFeed rows in the EIA feed.
MaxFeed == 3
\* Spec: at most MaxJoinRows daily temperature rows, MaxJoinFeed feed rows.
MaxJoinRows == 2
MaxJoinFeed == 2
\* SpecNoaa: at most MaxCsv rows in the CSV files.
MaxCsv == 3
\* SpecMain: at most MaxMainRows rows in noaa_hourly_avg.
MaxMainRows == 3
\* SpecFlow: at most MaxFlowRows rows in the CSV files and in the EIA feed.
MaxFlowRows == 1
\* SpecFetch: the page length of a request (page_size = 5000 in
\* fetch_eia_data, scaled down), and at most MaxList rows on the server for
\* one (parent, sub-region) query.
page_size == 2
MaxList == 5

-----------------------------------------------------------------------------
(* Program constants.                                                      *)

DefaultThreshold == 3222      \* HEAT_THRESHOLD_C = 32.22
SqlHotLiteral == 3222         \* the literal 32.22 of the is_hot_day CASE
MinRunLength == 3             \* HAVING COUNT(*) >= 3
SecondsPerDay == 86400        \* epoch(day_date) / 86400
HoursPerDay == 24             \* date_trunc('day', ...) on an hourly timestamp
MinutesPerHour == 60          \* date_trunc('hour', ts_utc)
HundredthsPerTenth == 10      \* TMP is in tenths of a degree: ... / 10.0
MaxLoadMwh == 500000          \* DELETE ... WHERE load_mwh > 500000

NULL == <<>>

\* A table variable holds NoTable, or <<rows>> with rows the bag of its rows.
NoTable == <<>>
Table(rows) == <<rows>>
Rows(t) == t[1]

-----------------------------------------------------------------------------
(* SQL helpers.                                                            *)

RECURSIVE SumFn(_)
\* The sum of the values of a function with a finite domain.
SumFn(f) ==
    IF DOMAIN f = {} THEN 0
    ELSE LET x == CHOOSE y \in DOMAIN f : TRUE
         IN  f[x] + SumFn([y \in DOMAIN f \ {x} |-> f[y]])

\* SELECT f[row] FROM B, with f the select list as a function of the row:
\* every copy of a row is projected.
MapBag(f, B) ==
    [r \in {f[x] : x \in DOMAIN B} |->
        SumFn([x \in {y \in DOMAIN B : f[y] = r} |-> B[x]])]

\* SELECT * FROM B WHERE ..., with S the rows of B the condition keeps.
FilterBag(S, B) == [r \in S |-> B[r]]

\* COUNT(*) over the rows S of B.
CountWhere(S, B) == SumFn([x \in S |-> B[x]])

\* a >= b in SQL: NULL when an operand is NULL.
SqlGe(a, b) == IF a = NULL \/ b = NULL THEN NULL ELSE <<a[1] >= b[1]>>

\* CASE WHEN c THEN t ELSE e END: a NULL condition takes the ELSE branch.
CaseWhen(c, t, e) == IF c = <<TRUE>> THEN t ELSE e

\* CAST(ts AS DATE) of a timestamp in hours: the day number, truncated.
CastDate(ts) == ts \div HoursPerDay

\* date_trunc('day', ts) of a timestamp in hours: midnight of its day.
DateTruncDay(ts) == (ts \div HoursPerDay) * HoursPerDay

\* CAST(epoch(day_date) / 86400 AS BIGINT): epoch() is the date's midnight
\* in seconds.
EpochDay(day_date) == (day_date * SecondsPerDay) \div SecondsPerDay

-----------------------------------------------------------------------------
(* build_noaa_heatwave_flags: the CTEs of its CREATE TABLE ... AS query.   *)

\* base: the daily rows with is_hot_day and day_date attached.
base(daily) ==
    MapBag([r \in DOMAIN daily |->
             [station          |-> r.station,
              day_utc          |-> r.day_utc,
              daily_max_temp_C |-> r.daily_max_temp_C,
              avg_temp_C       |-> r.avg_temp_C,
              is_hot_day       |-> CaseWhen(SqlGe(r.daily_max_temp_C,
                                                  <<SqlHotLiteral>>), 1, 0),
              day_date         |-> CastDate(r.day_utc)]],
           daily)

\* hot_days: the hot rows, numbered per station in date order.  The copies
\* of one (station, day_date) take the next consecutive row numbers.
hot_days(b) ==
    LET hot == FilterBag({r \in DOMAIN b : r.is_hot_day = 1}, b)
        keys == {<<r.station, r.day_date>> : r \in DOMAIN hot}
        Before(k) == CountWhere({r \in DOMAIN hot : r.station = k[1]
                                   /\ r.day_date < k[2]}, hot)
        Copies(k) == CountWhere({r \in DOMAIN hot : r.station = k[1]
                                   /\ r.day_date = k[2]}, hot)
    IN  SetToBag(UNION {{[station  |-> k[1],
                          day_date |-> k[2],
                          rn       |-> n] :
                            n \in (Before(k) + 1) .. (Before(k) + Copies(k))}
                        : k \in keys})

\* hot_grouped: grp_id = day number - rn.
hot_grouped(hd) ==
    MapBag([r \in DOMAIN hd |->
             [station  |-> r.station,
              day_date |-> r.day_date,
              rn       |-> r.rn,
              grp_id   |-> EpochDay(r.day_date) - r.rn]],
           hd)

\* Mutant of heatwave_groups: the HAVING bound off by one (COUNT(*) >= 2).
heatwave_groups_short(hg) ==
    SetToBag({g \in {[station |-> r.station, grp_id |-> r.grp_id] :
                        r \in DOMAIN hg} :
                CountWhere({r \in DOMAIN hg : r.station = g.station
                                                /\ r.grp_id = g.grp_id}, hg)
                    >= MinRunLength - 1})

\* heatwave_groups: GROUP BY station, grp_id HAVING COUNT(*) >= 3.
heatwave_groups(hg) ==
    SetToBag({g \in {[station |-> r.station, grp_id |-> r.grp_id] :
                        r \in DOMAIN hg} :
                CountWhere({r \in DOMAIN hg : r.station = g.station
                                                /\ r.grp_id = g.grp_id}, hg)
                    >= MinRunLength})

\* Mutant of heatwave_days: the join forgets the station (ON grp_id only).
heatwave_days_any_station(hg, groups) ==
    LET pairs == {q \in (DOMAIN hg) \X (DOMAIN groups) :
                     q[1].grp_id = q[2].grp_id}
    IN  MapBag([p \in pairs |-> [station  |-> p[1].station,
                                 day_date |-> p[1].day_date]],
               [p \in pairs |-> hg[p[1]] * groups[p[2]]])

\* heatwave_days: hot_grouped JOIN heatwave_groups ON station AND grp_id.
heatwave_days(hg, groups) ==
    LET pairs == {q \in (DOMAIN hg) \X (DOMAIN groups) :
                     q[1].station = q[2].station
                     /\ q[1].grp_id = q[2].grp_id}
    IN  MapBag([p \in pairs |-> [station  |-> p[1].station,
                                 day_date |-> p[1].day_date]],
               [p \in pairs |-> hg[p[1]] * groups[p[2]]])

\* Mutant of flags_select: an inner JOIN, which drops the unmatched rows.
flags_select_inner(b, hdays) ==
    LET Matches(r) == CountWhere({h \in DOMAIN hdays : r.station = h.station
                                   /\ CastDate(r.day_utc) = h.day_date}, hdays)
        Out(r) == [station          |-> r.station,
                   day_utc          |-> r.day_utc,
                   daily_max_temp_C |-> r.daily_max_temp_C,
                   avg_temp_C       |-> r.avg_temp_C,
                   is_hot_day       |-> r.is_hot_day,
                   is_heatwave_day  |-> 1]
        kept == {x \in DOMAIN b : Matches(x) > 0}
    IN  MapBag([r \in kept |-> Out(r)],
               [r \in kept |-> b[r] * Matches(r)])

\* The final SELECT: base LEFT JOIN heatwave_days ON station AND date.  A
\* base row with n > 0 matches is emitted n times, one with none once.
flags_select(b, hdays) ==
    LET Matches(r) == CountWhere({h \in DOMAIN hdays : r.station = h.station
                                   /\ CastDate(r.day_utc) = h.day_date}, hdays)
        Out(r) == [station          |-> r.station,
                   day_utc          |-> r.day_utc,
                   daily_max_temp_C |-> r.daily_max_temp_C,
                   avg_temp_C       |-> r.avg_temp_C,
                   is_hot_day       |-> r.is_hot_day,
                   is_heatwave_day  |-> IF Matches(r) > 0 THEN 1 ELSE 0]
    IN  MapBag([r \in DOMAIN b |-> Out(r)],
               [r \in DOMAIN b |->
                   b[r] * (IF Matches(r) > 0 THEN Matches(r) ELSE 1)])

\* The whole query of build_noaa_heatwave_flags.
heatwave_flags_query(daily) ==
    LET b  == base(daily)
        hg == hot_grouped(hot_days(b))
    IN  flags_select(b, heatwave_days(hg, heatwave_groups(hg)))

\* build_noaa_heatwave_flags(): DROP TABLE IF EXISTS, then CREATE TABLE AS.
\* Without noaa_daily_temp the CREATE raises after the DROP has run.
build_noaa_heatwave_flags ==
    /\ IF noaa_daily_temp = NoTable
       THEN /\ noaa_heatwave_flags' = NoTable
            /\ raised' = "CatalogException"
       ELSE /\ noaa_heatwave_flags' =
                   Table(heatwave_flags_query(Rows(noaa_daily_temp)))
            /\ raised' = "none"
    /\ UNCHANGED <<HEAT_THRESHOLD_C, eia_feed, eia_load_hourly,
                   eia_daily_load, noaa_daily_temp, heat_load_daily,
                   ingest_vars>>

-----------------------------------------------------------------------------
(* load_eia_to_duckdb (src/scripts/eia_ingest.py).                         *)

\* SUM(v) and MAX(v) over a bag of rows, with v the aggregated column as a
\* function of the row: NULL values are skipped, and the aggregate of no
\* value at all is NULL.
SqlSum(v, rows) ==
    LET some == {r \in DOMAIN rows : v[r] # NULL}
    IN  IF some = {} THEN NULL
        ELSE <<SumFn([r \in some |-> v[r][1] * rows[r]])>>

SqlMax(v, rows) ==
    LET some == {r \in DOMAIN rows : v[r] # NULL}
    IN  IF some = {} THEN NULL
        ELSE <<CHOOSE m \in {v[r][1] : r \in some} :
                 \A r \in some : v[r][1] <= m>>

\* STRPTIME(period, '%Y-%m-%dT%H'): the timestamp, in hours, of a period
\* given as <<day number, hour of the day>>.
Strptime(period) == period[1] * HoursPerDay + period[2]

\* eia_hourly_raw: the feed's rows with value cast to DOUBLE.
eia_hourly_raw(feed) ==
    MapBag([r \in DOMAIN feed |->
             [period |-> r.period, parent |-> r.parent,
              subba |-> r.subba, value_mwh |-> r.value]],
           feed)

\* eia_load_hourly: SUM(value_mwh) GROUP BY parent, STRPTIME(period).
eia_load_hourly_query(raw) ==
    LET keys == {[region |-> r.parent, hour_utc |-> Strptime(r.period)] :
                    r \in DOMAIN raw}
        Group(k) == FilterBag({r \in DOMAIN raw : r.parent = k.region
                                 /\ Strptime(r.period) = k.hour_utc}, raw)
        Value(g) == [r \in DOMAIN g |-> r.value_mwh]
    IN  SetToBag({[region   |-> k.region,
                   hour_utc |-> k.hour_utc,
                   load_mwh |-> SqlSum(Value(Group(k)), Group(k))] :
                  k \in keys})

\* What fetch_eia_data raises when the API is not "ok": RuntimeError without
\* EIA_API_KEY, and what r.raise_for_status() raises on an error response.
ApiError(api) == IF api = "no_key" THEN "RuntimeError" ELSE "HTTPError"

\* load_eia_to_duckdb(): with no row fetched it returns before touching the
\* database; otherwise both EIA tables are dropped and rebuilt.  The fetch
\* is inside the try: what it raises is printed and logged by the
\* except Exception clause, and the call returns normally.
load_eia_to_duckdb ==
    /\ IF eia_api # "ok"
       THEN /\ caught' = ApiError(eia_api)
            /\ UNCHANGED eia_load_hourly
       ELSE /\ caught' = "none"
            /\ IF eia_feed = EmptyBag
               THEN UNCHANGED eia_load_hourly
               ELSE eia_load_hourly' =
                        Table(eia_load_hourly_query(eia_hourly_raw(eia_feed)))
    /\ raised' = "none"
    /\ UNCHANGED <<HEAT_THRESHOLD_C, eia_feed, eia_daily_load,
                   noaa_daily_temp, noaa_heatwave_flags, heat_load_daily,
                   noaa_ingest_vars, fetch_vars, previous>>

-----------------------------------------------------------------------------
(* build_eia_daily_load.                                                   *)

\* Mutant of hourly_unique: DISTINCT taken after truncating the hour to its
\* day, so that two hours of a day with the same load collapse into one.
hourly_unique_by_day(hourly) ==
    SetToBag({[region |-> r.region, hour_utc |-> DateTruncDay(r.hour_utc),
               load_mwh |-> r.load_mwh] : r \in DOMAIN hourly})

\* hourly_unique: SELECT DISTINCT region, hour_utc, load_mwh.
hourly_unique(hourly) ==
    SetToBag({[region |-> r.region, hour_utc |-> r.hour_utc,
               load_mwh |-> r.load_mwh] : r \in DOMAIN hourly})

\* The aggregation: SUM and MAX of load_mwh GROUP BY region, day.
eia_daily_load_query(hourly) ==
    LET hu == hourly_unique(hourly)
        keys == {[region |-> r.region, day_utc |-> DateTruncDay(r.hour_utc)] :
                    r \in DOMAIN hu}
        Group(k) == FilterBag({r \in DOMAIN hu : r.region = k.region
                                 /\ DateTruncDay(r.hour_utc) = k.day_utc}, hu)
        Load(g) == [r \in DOMAIN g |-> r.load_mwh]
    IN  SetToBag({[region          |-> k.region,
                   day_utc         |-> k.day_utc,
                   daily_total_mwh |-> SqlSum(Load(Group(k)), Group(k)),
                   daily_peak_mwh  |-> SqlMax(Load(Group(k)), Group(k))] :
                  k \in keys})

\* build_eia_daily_load(): DROP TABLE IF EXISTS, then CREATE TABLE AS.
build_eia_daily_load ==
    /\ IF eia_load_hourly = NoTable
       THEN /\ eia_daily_load' = NoTable
            /\ raised' = "CatalogException"
       ELSE /\ eia_daily_load' =
                   Table(eia_daily_load_query(Rows(eia_load_hourly)))
            /\ raised' = "none"
    /\ UNCHANGED <<HEAT_THRESHOLD_C, eia_feed, eia_load_hourly,
                   noaa_daily_temp, noaa_heatwave_flags, heat_load_daily,
                   ingest_vars>>

-----------------------------------------------------------------------------
(* heat_load_daily.                                                        *)

\* The region column: CASE WHEN station = 'IAD' THEN 'PJM'
\* WHEN station = 'BOS' THEN 'ISNE' END, NULL for any other station.
RegionColumn(station) ==
    IF station = "IAD" THEN <<"PJM">>
    ELSE IF station = "BOS" THEN <<"ISNE">>
    ELSE NULL

\* The region of the join condition:
\* CASE WHEN n.station = 'IAD' THEN 'PJM' ELSE 'ISNE' END.
JoinRegion(station) == IF station = "IAD" THEN "PJM" ELSE "ISNE"

\* Mutant of heat_load_join: the join forgets the day (ON region only).
heat_load_join_any_day(n, e) == e.region = JoinRegion(n.station)

\* The ON condition of the LEFT JOIN.
heat_load_join(n, e) ==
    /\ e.region = JoinRegion(n.station)
    /\ e.day_utc = n.day_utc

\* noaa_heatwave_flags n LEFT JOIN eia_daily_load e: a flags row is emitted
\* once per matching load row, and once with NULL load fields without one.
heat_load_daily_query(flags, load) ==
    LET NoLoad(n) == [region |-> JoinRegion(n.station), day_utc |-> n.day_utc,
                      daily_total_mwh |-> NULL, daily_peak_mwh |-> NULL]
        Matches(n) == {e \in DOMAIN load : heat_load_join(n, e)}
        pairs == UNION {IF Matches(n) = {} THEN {<<n, NoLoad(n)>>}
                        ELSE {<<n, e>> : e \in Matches(n)} :
                        n \in DOMAIN flags}
        Out(p) == [station          |-> p[1].station,
                   region           |-> RegionColumn(p[1].station),
                   day_utc          |-> p[1].day_utc,
                   daily_max_temp_C |-> p[1].daily_max_temp_C,
                   avg_temp_C       |-> p[1].avg_temp_C,
                   is_hot_day       |-> p[1].is_hot_day,
                   is_heatwave_day  |-> p[1].is_heatwave_day,
                   daily_total_mwh  |-> p[2].daily_total_mwh,
                   daily_peak_mwh   |-> p[2].daily_peak_mwh]
    IN  MapBag([p \in pairs |-> Out(p)],
               [p \in pairs |->
                   flags[p[1]] * (IF p[2] \in DOMAIN load THEN load[p[2]]
                                  ELSE 1)])

\* heat_load_daily(): DROP TABLE IF EXISTS, then CREATE TABLE AS.  No
\* station is rejected; a missing input table makes the CREATE raise.
heat_load_daily_build ==
    /\ IF noaa_heatwave_flags = NoTable \/ eia_daily_load = NoTable
       THEN /\ heat_load_daily' = NoTable
            /\ raised' = "CatalogException"
       ELSE /\ heat_load_daily' =
                   Table(heat_load_daily_query(Rows(noaa_heatwave_flags),
                                               Rows(eia_daily_load)))
            /\ raised' = "none"
    /\ UNCHANGED <<HEAT_THRESHOLD_C, eia_feed, eia_load_hourly,
                   eia_daily_load, noaa_daily_temp, noaa_heatwave_flags,
                   ingest_vars>>

-----------------------------------------------------------------------------
(* load_noaa_hourly and build_noaa_hourly_avg (src/noaa_ingest.py).  A CSV  *)
(* row is [STATION, DATE, TMP]: DATE is <<hour since the epoch, minute>>   *)
(* and TMP is <<temperature field, quality code>>, the temperature field a *)
(* string given as the sequence of its characters.  ts_utc is in minutes.  *)

\* STATIONS.
STATIONS ==
    <<<<"IAD", "72403093738">>, <<"BOS", "72509014739">>,
      <<"ATL", "72219013874">>, <<"NYC", "74486094789">>,
      <<"DFW", "72259003927">>, <<"LAX", "72295023174">>,
      <<"SEA", "72793024233">>>>

\* The station CASE: the label of a known station code, else the code.
StationLabel(code) ==
    IF \E i \in DOMAIN STATIONS : STATIONS[i][2] = code
    THEN STATIONS[CHOOSE i \in DOMAIN STATIONS : STATIONS[i][2] = code][1]
    ELSE code

\* DATE::TIMESTAMP, in minutes.
CastTimestamp(date) == date[1] * MinutesPerHour + date[2]

\* date_trunc('hour', ts_utc), as the hour number the hourly tables use.
DateTruncHour(ts) == ts \div MinutesPerHour

\* split_part(TMP, ',', 1).
SplitPart1(tmp) == tmp[1]

DigitChars == <<"0", "1", "2", "3", "4", "5", "6", "7", "8", "9">>

RECURSIVE DigitsValue(_)
\* The number a non-empty string of digits denotes.
DigitsValue(str) ==
    IF str = <<>> THEN 0
    ELSE DigitsValue(SubSeq(str, 1, Len(str) - 1)) * 10
           + (CHOOSE i \in DOMAIN DigitChars : DigitChars[i] = str[Len(str)])
           - 1

\* TRY_CAST(str AS INTEGER): an optional sign and at least one digit, NULL
\* for anything else.
TryCastInteger(str) ==
    LET signed == str # <<>> /\ str[1] \in {"+", "-"}
        digits == IF signed THEN SubSeq(str, 2, Len(str)) ELSE str
        IsDigits == /\ digits # <<>>
                    /\ \A i \in DOMAIN digits :
                           \E j \in DOMAIN DigitChars : DigitChars[j] = digits[i]
    IN  IF ~ IsDigits THEN NULL
        ELSE IF signed /\ str[1] = "-" THEN <<0 - DigitsValue(digits)>>
        ELSE <<DigitsValue(digits)>>

\* The string '+9999' of the temp_C CASE.
MissingTmp == <<"+", "9", "9", "9", "9">>

\* The temp_C CASE: NULL for '+9999', else TRY_CAST(... AS INTEGER) / 10.0.
CleanTemp(tmp) ==
    IF SplitPart1(tmp) = MissingTmp THEN NULL
    ELSE LET n == TryCastInteger(SplitPart1(tmp))
         IN  IF n = NULL THEN NULL ELSE <<n[1] * HundredthsPerTenth>>

\* CREATE TABLE noaa_hourly_temp AS SELECT ... FROM noaa_hourly_raw.
noaa_hourly_temp_query(raw) ==
    MapBag([r \in DOMAIN raw |->
             [station |-> StationLabel(r.STATION),
              ts_utc  |-> CastTimestamp(r.DATE),
              temp_C  |-> CleanTemp(r.TMP)]],
           raw)

\* load_noaa_hourly(): both tables are dropped, then rebuilt from the CSV
\* files.  Without a file read_csv_auto raises after the drops; the
\* except Exception clause prints and logs it and the call returns normally.
load_noaa_hourly ==
    /\ IF noaa_csv = NoTable
       THEN /\ noaa_hourly_raw' = NoTable
            /\ noaa_hourly_temp' = NoTable
            /\ caught' = "IOException"
       ELSE /\ noaa_hourly_raw' = noaa_csv
            /\ noaa_hourly_temp' =
                   Table(noaa_hourly_temp_query(Rows(noaa_csv)))
            /\ caught' = "none"
    /\ raised' = "none"
    /\ UNCHANGED <<HEAT_THRESHOLD_C, eia_feed, eia_load_hourly,
                   eia_daily_load, noaa_daily_temp, noaa_heatwave_flags,
                   heat_load_daily, noaa_csv, noaa_hourly_avg, base_combine,
                   fetch_vars, previous>>

\* AVG(v) over a bag of rows, to the hundredth of a degree (rounded down):
\* NULL values are skipped, and the mean of no value at all is NULL.
SqlAvg(v, rows) ==
    LET some == {r \in DOMAIN rows : v[r] # NULL}
    IN  IF some = {} THEN NULL
        ELSE <<SumFn([r \in some |-> v[r][1] * rows[r]])
                 \div CountWhere(some, rows)>>

\* CREATE TABLE noaa_hourly_avg AS SELECT station, date_trunc('hour',
\* ts_utc) AS hour_utc, AVG(temp_C) ... GROUP BY station, hour_utc.
noaa_hourly_avg_query(temp) ==
    LET keys == {[station |-> r.station, hour_utc |-> DateTruncHour(r.ts_utc)] :
                    r \in DOMAIN temp}
        Group(k) == FilterBag({r \in DOMAIN temp : r.station = k.station
                                 /\ DateTruncHour(r.ts_utc) = k.hour_utc}, temp)
        Temp(g) == [r \in DOMAIN g |-> r.temp_C]
    IN  SetToBag({[station  |-> k.station,
                   hour_utc |-> k.hour_utc,
                   temp_C   |-> SqlAvg(Temp(Group(k)), Group(k))] :
                  k \in keys})

\* build_noaa_hourly_avg(): DROP TABLE IF EXISTS, then CREATE TABLE AS.
\* Without noaa_hourly_temp the CREATE raises after the DROP; the
\* except Exception clause prints and logs it and the call returns normally.
build_noaa_hourly_avg ==
    /\ IF noaa_hourly_temp = NoTable
       THEN /\ noaa_hourly_avg' = NoTable
            /\ caught' = "CatalogException"
       ELSE /\ noaa_hourly_avg' =
                   Table(noaa_hourly_avg_query(Rows(noaa_hourly_temp)))
            /\ caught' = "none"
    /\ raised' = "none"
    /\ UNCHANGED <<HEAT_THRESHOLD_C, eia_feed, eia_load_hourly,
                   eia_daily_load, noaa_daily_temp, noaa_heatwave_flags,
                   heat_load_daily, noaa_csv, noaa_hourly_raw,
                   noaa_hourly_temp, base_combine, fetch_vars, previous>>

-----------------------------------------------------------------------------
(* build_noaa_daily.                                                       *)

\* Mutant of noaa_daily_query: the NULL hours are filtered out before the
\* grouping (WHERE temp_C IS NOT NULL).
noaa_daily_query_nonnull(hourly) ==
    LET valid == FilterBag({r \in DOMAIN hourly : r.temp_C # NULL}, hourly)
        keys == {[station |-> r.station, day_utc |-> DateTruncDay(r.hour_utc)] :
                    r \in DOMAIN valid}
        Group(k) == FilterBag({r \in DOMAIN valid : r.station = k.station
                                 /\ DateTruncDay(r.hour_utc) = k.day_utc},
                              valid)
        Temp(g) == [r \in DOMAIN g |-> r.temp_C]
    IN  SetToBag({[station          |-> k.station,
                   day_utc          |-> k.day_utc,
                   daily_max_temp_C |-> SqlMax(Temp(Group(k)), Group(k)),
                   avg_temp_C       |-> SqlAvg(Temp(Group(k)), Group(k))] :
                  k \in keys})

\* Mutant of noaa_daily_query: an incremental build, which skips the days
\* heat_load_daily already holds.
noaa_daily_query_incremental(hourly) ==
    LET keys == {[station |-> r.station, day_utc |-> DateTruncDay(r.hour_utc)] :
                    r \in DOMAIN hourly}
        new == IF heat_load_daily = NoTable THEN keys
               ELSE {k \in keys :
                       ~ \E h \in DOMAIN Rows(heat_load_daily) :
                             h.station = k.station /\ h.day_utc = k.day_utc}
        Group(k) == FilterBag({r \in DOMAIN hourly : r.station = k.station
                                 /\ DateTruncDay(r.hour_utc) = k.day_utc},
                              hourly)
        Temp(g) == [r \in DOMAIN g |-> r.temp_C]
    IN  SetToBag({[station          |-> k.station,
                   day_utc          |-> k.day_utc,
                   daily_max_temp_C |-> SqlMax(Temp(Group(k)), Group(k)),
                   avg_temp_C       |-> SqlAvg(Temp(Group(k)), Group(k))] :
                  k \in new})

\* CREATE TABLE noaa_daily_temp AS SELECT station, DATE_TRUNC('day',
\* hour_utc) AS day_utc, MAX(temp_C), AVG(temp_C) FROM noaa_hourly_avg
\* GROUP BY station, day_utc.
noaa_daily_query(hourly) ==
    LET keys == {[station |-> r.station, day_utc |-> DateTruncDay(r.hour_utc)] :
                    r \in DOMAIN hourly}
        Group(k) == FilterBag({r \in DOMAIN hourly : r.station = k.station
                                 /\ DateTruncDay(r.hour_utc) = k.day_utc},
                              hourly)
        Temp(g) == [r \in DOMAIN g |-> r.temp_C]
    IN  SetToBag({[station          |-> k.station,
                   day_utc          |-> k.day_utc,
                   daily_max_temp_C |-> SqlMax(Temp(Group(k)), Group(k)),
                   avg_temp_C       |-> SqlAvg(Temp(Group(k)), Group(k))] :
                  k \in keys})

\* build_noaa_daily(): DROP TABLE IF EXISTS, then CREATE TABLE AS.  Without
\* noaa_hourly_avg the CREATE raises after the DROP has run.
build_noaa_daily ==
    /\ IF noaa_hourly_avg = NoTable
       THEN /\ noaa_daily_temp' = NoTable
            /\ raised' = "CatalogException"
       ELSE /\ noaa_daily_temp' =
                   Table(noaa_daily_query(Rows(noaa_hourly_avg)))
            /\ raised' = "none"
    /\ UNCHANGED <<HEAT_THRESHOLD_C, eia_feed, eia_load_hourly,
                   eia_daily_load, noaa_heatwave_flags, heat_load_daily,
                   ingest_vars>>

-----------------------------------------------------------------------------
(* The parts of the state a specification does not exercise.               *)

\* No CSV file and no table of the NOAA ingestion.
NoIngest ==
    /\ noaa_csv = NoTable
    /\ noaa_hourly_raw = NoTable
    /\ noaa_hourly_temp = NoTable
    /\ noaa_hourly_avg = NoTable
    /\ base_combine = NoTable

\* No fetch_eia_data call under way, and the API answering.
NoFetch ==
    /\ eia_api = "ok"
    /\ eia_server = <<>>
    /\ query = 1
    /\ offset = 0
    /\ all_rows = <<>>

\* The stage functions called one by one, outside any run.
NoRun ==
    /\ caught = "none"
    /\ previous = <<>>
    /\ pc = "idle"

-----------------------------------------------------------------------------
(* Daily temperature tables: what build_noaa_daily leaves, one row per     *)
(* (station, day) by its GROUP BY.                                         *)

\* <<daily max, daily mean>> of a day of NULL hours, of a cold day and of a
\* day whose max is exactly 32.22.
HeatTemps == {<<NULL, NULL>>, <<<<3100>>, <<2900>>>>, <<<<3222>>, <<3100>>>>}

DailyRow(s, d, t) ==
    [station |-> s, day_utc |-> d * HoursPerDay,
     daily_max_temp_C |-> t[1], avg_temp_C |-> t[2]]

\* t is a daily table with at most maxRows rows over the given stations and
\* days, one row per (station, day).
IsDailyTable(t, stations, days, temps, maxRows) ==
    \E K \in {c \in SUBSET (stations \X days) : Cardinality(c) <= maxRows} :
        \E f \in [K -> temps] :
            t = Table(SetToBag({DailyRow(c[1], c[2], f[c]) : c \in K}))

HeatStations == {"IAD", "NYC"}

\* Every table of one station over MaxDay days (each day absent, NULL, cold
\* or hot), and every table of two stations that fits the smaller bounds.
InitHeat ==
    /\ HEAT_THRESHOLD_C = DefaultThreshold
    /\ \/ IsDailyTable(noaa_daily_temp, {"IAD"}, 0 .. (MaxDay - 1),
                       HeatTemps, MaxDay)
       \/ IsDailyTable(noaa_daily_temp, HeatStations,
                       0 .. (MaxSharedDay - 1), HeatTemps, MaxRows)
    /\ noaa_heatwave_flags = NoTable
    /\ eia_feed = EmptyBag
    /\ eia_load_hourly = NoTable
    /\ eia_daily_load = NoTable
    /\ heat_load_daily = NoTable
    /\ raised = "none"
    /\ NoIngest /\ NoFetch /\ NoRun

NextHeat == build_noaa_heatwave_flags /\ UNCHANGED pc

SpecHeat == InitHeat /\ [][NextHeat]_vars

\* SpecThreshold: the heatwave stage under each setting of the threshold.
ThresholdSettings == {DefaultThreshold, 3000}

ThresholdTemps == {<<NULL, NULL>>, <<<<2900>>, <<2800>>>>,
                   <<<<3100>>, <<2900>>>>, <<<<3221>>, <<3000>>>>,
                   <<<<3222>>, <<3100>>>>, <<<<3300>>, <<3100>>>>}

InitThreshold ==
    /\ HEAT_THRESHOLD_C \in ThresholdSettings
    /\ IsDailyTable(noaa_daily_temp, HeatStations,
                    0 .. (MaxThresholdDay - 1), ThresholdTemps,
                    Cardinality(HeatStations) * MaxThresholdDay)
    /\ noaa_heatwave_flags = NoTable
    /\ eia_feed = EmptyBag
    /\ eia_load_hourly = NoTable
    /\ eia_daily_load = NoTable
    /\ heat_load_daily = NoTable
    /\ raised = "none"
    /\ NoIngest /\ NoFetch /\ NoRun

SpecThreshold == InitThreshold /\ [][NextHeat]_vars

-----------------------------------------------------------------------------
(* EIA feeds: the rows fetch_eia_data hands to load_eia_to_duckdb.         *)

FeedRow(src, period, value) ==
    [period |-> period, parent |-> src[1], subba |-> src[2], value |-> value]

\* The rows a feed draws from, in a fixed order: every source with every
\* period and every value.
FeedRows(sources, periods, values) ==
    LET ns == Len(sources)
        np == Len(periods)
    IN  [i \in 1 .. (ns * np * Len(values)) |->
            FeedRow(sources[((i - 1) % ns) + 1],
                    periods[(((i - 1) \div ns) % np) + 1],
                    values[((i - 1) \div (ns * np)) + 1])]

\* feed is a bag of at most k of the given rows (all_rows, order forgotten:
\* the tables built from it do not depend on the order).
IsFeed(feed, rows, k) ==
    \E n \in 0 .. k :
        \E q \in [1 .. n -> 1 .. Len(rows)] :
            /\ \A i \in 1 .. (n - 1) : q[i] <= q[i + 1]
            /\ feed = [r \in {rows[q[i]] : i \in 1 .. n} |->
                          Cardinality({i \in 1 .. n : rows[q[i]] = r})]

\* PARENT_SUBBAS, cut to the two regions heat_load_daily joins.
PARENT_SUBBAS == <<<<"PJM", "DOM">>, <<"ISNE", "4007">>, <<"ISNE", "4008">>>>

\* Three hours of one day and one of the next, as <<day, hour>>.
LoadPeriods == <<<<0, 0>>, <<0, 1>>, <<0, 2>>, <<1, 0>>>>

\* Three positive hourly values, a missing one and a negative one.
LoadValues == <<<<100>>, <<150>>, <<120>>, NULL, <<-50>>>>

InitLoad ==
    /\ HEAT_THRESHOLD_C = DefaultThreshold
    /\ IsFeed(eia_feed, FeedRows(PARENT_SUBBAS, LoadPeriods, LoadValues),
              MaxFeed)
    /\ eia_load_hourly = NoTable
    /\ eia_daily_load = NoTable
    /\ noaa_daily_temp = NoTable
    /\ noaa_heatwave_flags = NoTable
    /\ heat_load_daily = NoTable
    /\ raised = "none"
    /\ NoIngest /\ NoFetch /\ NoRun

NextLoad ==
    \/ load_eia_to_duckdb /\ UNCHANGED pc
    \/ build_eia_daily_load /\ UNCHANGED pc

SpecLoad == InitLoad /\ [][NextLoad]_vars

-----------------------------------------------------------------------------
(* The processing run: both branches and the join.                         *)

JoinStations == {"IAD", "BOS", "NYC"}
JoinDays == {0, 1}
JoinTemps == {<<NULL, NULL>>, <<<<3222>>, <<3100>>>>}
JoinSources == <<<<"PJM", "DOM">>, <<"ISNE", "4007">>>>
JoinPeriods == <<<<0, 0>>, <<1, 0>>>>
JoinValues == <<<<100>>, <<150>>>>

Init ==
    /\ HEAT_THRESHOLD_C = DefaultThreshold
    /\ IsDailyTable(noaa_daily_temp, JoinStations, JoinDays, JoinTemps,
                    MaxJoinRows)
    /\ IsFeed(eia_feed, FeedRows(JoinSources, JoinPeriods, JoinValues),
              MaxJoinFeed)
    /\ eia_load_hourly = NoTable
    /\ eia_daily_load = NoTable
    /\ noaa_heatwave_flags = NoTable
    /\ heat_load_daily = NoTable
    /\ raised = "none"
    /\ NoIngest /\ NoFetch /\ NoRun

Next ==
    \/ load_eia_to_duckdb /\ UNCHANGED pc
    \/ build_noaa_heatwave_flags /\ UNCHANGED pc
    \/ build_eia_daily_load /\ UNCHANGED pc
    \/ heat_load_daily_build /\ UNCHANGED pc

Spec == Init /\ [][Next]_vars

-----------------------------------------------------------------------------
(* The temperature branch from the CSV files to noaa_daily_temp.           *)

CsvRow(code, date, tmp) == [STATION |-> code, DATE |-> date, TMP |-> tmp]

\* The rows a CSV input draws from, in a fixed order: every station code
\* with every DATE and every TMP.
CsvRows(codes, dates, tmps) ==
    LET nc == Len(codes)
        nd == Len(dates)
    IN  [i \in 1 .. (nc * nd * Len(tmps)) |->
            CsvRow(codes[((i - 1) % nc) + 1],
                   dates[(((i - 1) \div nc) % nd) + 1],
                   tmps[((i - 1) \div (nc * nd)) + 1])]

\* csv is the content of CSV files with at most k of the given rows.
IsCsv(csv, rows, k) ==
    \E n \in 0 .. k :
        \E q \in [1 .. n -> 1 .. Len(rows)] :
            /\ \A i \in 1 .. (n - 1) : q[i] <= q[i + 1]
            /\ csv = Table([r \in {rows[q[i]] : i \in 1 .. n} |->
                               Cardinality({i \in 1 .. n : rows[q[i]] = r})])

\* The station codes of IAD and BOS.
NoaaCodes == <<STATIONS[1][2], STATIONS[2][2]>>

\* Two samples of one hour, the next hour and the first hour of the next
\* day, as <<hour, minute>>.
NoaaDates == <<<<0, 0>>, <<0, 30>>, <<1, 0>>, <<24, 0>>>>

\* 25.0 and 33.0 degrees, the missing value +9999, the same with a minus
\* sign and an empty field, each with its quality code.
NoaaTmps ==
    <<<<<<"+", "0", "2", "5", "0">>, "1">>,
      <<<<"+", "0", "3", "3", "0">>, "1">>,
      <<<<"+", "9", "9", "9", "9">>, "9">>,
      <<<<"-", "9", "9", "9", "9">>, "9">>,
      <<<<>>, "9">>>>

InitNoaa ==
    /\ HEAT_THRESHOLD_C = DefaultThreshold
    /\ \/ noaa_csv = NoTable
       \/ IsCsv(noaa_csv, CsvRows(NoaaCodes, NoaaDates, NoaaTmps), MaxCsv)
    /\ noaa_hourly_raw = NoTable
    /\ noaa_hourly_temp = NoTable
    /\ noaa_hourly_avg = NoTable
    /\ noaa_daily_temp = NoTable
    /\ base_combine = NoTable
    /\ noaa_heatwave_flags = NoTable
    /\ eia_feed = EmptyBag
    /\ eia_load_hourly = NoTable
    /\ eia_daily_load = NoTable
    /\ heat_load_daily = NoTable
    /\ raised = "none"
    /\ NoFetch /\ NoRun

NextNoaa ==
    \/ load_noaa_hourly /\ UNCHANGED pc
    \/ build_noaa_hourly_avg /\ UNCHANGED pc
    \/ build_noaa_daily /\ UNCHANGED pc

SpecNoaa == InitNoaa /\ [][NextNoaa]_vars

-----------------------------------------------------------------------------
(* combine_table (src/scripts/base_combine_processing.py) and the flow of  *)
(* src/prefect_flow.py.                                                    *)

\* The VALUES of the temporary mapping table.
mapping ==
    {[station |-> "IAD", region |-> "PJM"],
     [station |-> "BOS", region |-> "ISNE"],
     [station |-> "NYC", region |-> "NYIS"],
     [station |-> "LAX", region |-> "CISO"]}

\* CREATE TABLE base_combine AS ... noaa_hourly_avg n JOIN mapping m JOIN
\* eia_load_hourly e, then the DELETE of the impossible loads (a NULL load
\* satisfies neither comparison and stays).
base_combine_query(n, e) ==
    LET pairs == {q \in (DOMAIN n) \X (DOMAIN e) :
                     /\ \E m \in mapping : /\ q[1].station = m.station
                                            /\ q[2].region = m.region
                     /\ q[2].hour_utc = q[1].hour_utc}
        kept == {q \in pairs :
                    \/ q[2].load_mwh = NULL
                    \/ ~ (q[2].load_mwh[1] > MaxLoadMwh
                            \/ q[2].load_mwh[1] <= 0)}
    IN  MapBag([q \in kept |-> [hour_utc |-> q[1].hour_utc,
                                location |-> q[1].station,
                                temp     |-> q[1].temp_C,
                                load_mwh |-> q[2].load_mwh]],
               [q \in kept |-> n[q[1]] * e[q[2]]])

\* combine_table(): only duckdb.connect is inside a try; the DROP runs, and
\* a missing input table makes the CREATE raise out of the function.
combine_table ==
    /\ IF noaa_hourly_avg = NoTable \/ eia_load_hourly = NoTable
       THEN /\ base_combine' = NoTable
            /\ raised' = "CatalogException"
       ELSE /\ base_combine' =
                   Table(base_combine_query(Rows(noaa_hourly_avg),
                                            Rows(eia_load_hourly)))
            /\ raised' = "none"
    /\ caught' = "none"
    /\ UNCHANGED <<HEAT_THRESHOLD_C, eia_feed, eia_load_hourly,
                   eia_daily_load, noaa_daily_temp, noaa_heatwave_flags,
                   heat_load_daily, noaa_csv, noaa_hourly_raw,
                   noaa_hourly_temp, noaa_hourly_avg, fetch_vars, previous>>

\* The eia_fetch task: fetch_eia_data(...) called outside any try, its
\* result dropped.  What the call raises leaves the task.
eia_fetch ==
    /\ raised' = IF eia_api = "ok" THEN "none" ELSE ApiError(eia_api)
    /\ caught' = "none"
    /\ UNCHANGED <<HEAT_THRESHOLD_C, eia_feed, eia_load_hourly,
                   eia_daily_load, noaa_daily_temp, noaa_heatwave_flags,
                   heat_load_daily, noaa_ingest_vars, fetch_vars, previous>>

InFlow ==
    pc \in {"load_noaa", "build_noaa", "eia_fetch", "build_eia",
            "build_combine"}

\* heatgrid_flow() is called, on a database any earlier run has left.
heatgrid_flow ==
    /\ pc \in {"ready", "completed", "crashed"}
    /\ pc' = "load_noaa"
    /\ raised' = "none"
    /\ caught' = "none"
    /\ UNCHANGED <<HEAT_THRESHOLD_C, eia_feed, eia_load_hourly,
                   eia_daily_load, noaa_daily_temp, noaa_heatwave_flags,
                   heat_load_daily, noaa_ingest_vars, fetch_vars, previous>>

\* A task call of the flow body: the next task is called when the task
\* returns, and an exception that leaves the task ends the flow.
TaskReturns(next) == pc' = IF raised' = "none" THEN next ELSE "crashed"

flow_load_noaa ==
    /\ pc = "load_noaa"
    /\ load_noaa_hourly
    /\ TaskReturns("build_noaa")

flow_build_noaa ==
    /\ pc = "build_noaa"
    /\ build_noaa_hourly_avg
    /\ TaskReturns("eia_fetch")

flow_eia_fetch ==
    /\ pc = "eia_fetch"
    /\ eia_fetch
    /\ TaskReturns("build_eia")

flow_build_eia ==
    /\ pc = "build_eia"
    /\ load_eia_to_duckdb
    /\ TaskReturns("build_combine")

flow_build_combine ==
    /\ pc = "build_combine"
    /\ combine_table
    /\ TaskReturns("completed")

\* The EIA API starts or stops answering requests while the flow runs.
eia_api_turns ==
    /\ InFlow
    /\ eia_api \in {"ok", "http_error"}
    /\ eia_api' = IF eia_api = "ok" THEN "http_error" ELSE "ok"
    /\ UNCHANGED <<HEAT_THRESHOLD_C, eia_feed, eia_load_hourly,
                   eia_daily_load, noaa_daily_temp, noaa_heatwave_flags,
                   heat_load_daily, raised, noaa_ingest_vars, caught,
                   previous, pc, eia_server, query, offset, all_rows>>

\* The station code of IAD; midnight of two days; 25.0 degrees and the
\* missing value.
FlowCodes == <<STATIONS[1][2]>>
FlowDates == <<<<0, 0>>, <<HoursPerDay, 0>>>>
FlowTmps == <<<<<<"+", "0", "2", "5", "0">>, "1">>,
              <<<<"+", "9", "9", "9", "9">>, "9">>>>

\* A load and an impossible one.
FlowValues == <<<<100>>, <<-50>>>>

\* A fresh database; CSV files or none; an API with or without its key.
InitFlow ==
    /\ HEAT_THRESHOLD_C = DefaultThreshold
    /\ \/ noaa_csv = NoTable
       \/ IsCsv(noaa_csv, CsvRows(FlowCodes, FlowDates, FlowTmps),
                MaxFlowRows)
    /\ IsFeed(eia_feed, FeedRows(JoinSources, JoinPeriods, FlowValues),
              MaxFlowRows)
    /\ eia_api \in {"ok", "no_key", "http_error"}
    /\ noaa_hourly_raw = NoTable
    /\ noaa_hourly_temp = NoTable
    /\ noaa_hourly_avg = NoTable
    /\ base_combine = NoTable
    /\ eia_load_hourly = NoTable
    /\ eia_daily_load = NoTable
    /\ noaa_daily_temp = NoTable
    /\ noaa_heatwave_flags = NoTable
    /\ heat_load_daily = NoTable
    /\ raised = "none"
    /\ caught = "none"
    /\ previous = <<>>
    /\ pc = "ready"
    /\ eia_server = <<>>
    /\ query = 1
    /\ offset = 0
    /\ all_rows = <<>>

NextFlow ==
    \/ heatgrid_flow
    \/ flow_load_noaa
    \/ flow_build_noaa
    \/ flow_eia_fetch
    \/ flow_build_eia
    \/ flow_build_combine
    \/ eia_api_turns

SpecFlow == InitFlow /\ [][NextFlow]_vars

-----------------------------------------------------------------------------
(* fetch_eia_data, request by request.  eia_server[j] is the row list the  *)
(* server holds for the j-th (parent, sub-region) pair, sorted by period.  *)

\* The JSON of a request with the given offset and length: the rows
\* offset .. offset + length - 1 of the list, counted from 0.
ServerPage(list, o, length) ==
    IF o >= Len(list) THEN <<>>
    ELSE SubSeq(list, o + 1,
                IF o + length <= Len(list) THEN o + length ELSE Len(list))

\* Mutant of LastPage: a full page also ends the loop (<= for <).
LastPage_or_full(rows) == Len(rows) <= page_size

\* if len(rows) < page_size: break.
LastPage(rows) == Len(rows) < page_size

\* The (parent, sub) pairs in the order the two for loops visit them.
Queries == PARENT_SUBBAS

\* One pass of the while loop, up to the next request or to the end of the
\* two for loops.  An error response raises out of fetch_eia_data.
fetch_page ==
    /\ pc = "request"
    /\ IF eia_api # "ok"
       THEN /\ raised' = ApiError(eia_api)
            /\ pc' = "raised"
            /\ UNCHANGED <<query, offset, all_rows>>
       ELSE LET rows == ServerPage(eia_server[query], offset, page_size)
                more == rows # <<>> /\ ~ LastPage(rows)
            IN  /\ all_rows' = all_rows \o rows
                /\ IF more
                   THEN /\ offset' = offset + page_size
                        /\ UNCHANGED <<query, pc>>
                   ELSE /\ offset' = 0
                        /\ IF query < Len(Queries)
                           THEN query' = query + 1 /\ UNCHANGED pc
                           ELSE pc' = "return" /\ UNCHANGED query
                /\ UNCHANGED raised
    /\ UNCHANGED <<HEAT_THRESHOLD_C, eia_feed, eia_load_hourly,
                   eia_daily_load, noaa_daily_temp, noaa_heatwave_flags,
                   heat_load_daily, noaa_ingest_vars, eia_api, eia_server,
                   caught, previous>>

RECURSIVE SeqToBag(_)
\* The rows of a list, order forgotten.
SeqToBag(list) ==
    IF list = <<>> THEN EmptyBag
    ELSE SeqToBag(Tail(list)) (+) SetToBag({Head(list)})

\* return all_rows: the caller gets the rows.
fetch_return ==
    /\ pc = "return"
    /\ eia_feed' = SeqToBag(all_rows)
    /\ pc' = "returned"
    /\ UNCHANGED <<HEAT_THRESHOLD_C, eia_load_hourly, eia_daily_load,
                   noaa_daily_temp, noaa_heatwave_flags, heat_load_daily,
                   raised, ingest_vars>>

\* The k-th row of the list of the j-th query: the k-th hour of the range.
ServerRow(j, k) ==
    FeedRow(Queries[j],
            <<(k - 1) \div HoursPerDay, (k - 1) % HoursPerDay>>, <<100>>)

\* A server with a list of any length up to MaxList for every query, and
\* fetch_eia_data called with EIA_API_KEY set.
InitFetch ==
    /\ HEAT_THRESHOLD_C = DefaultThreshold
    /\ \E lens \in [DOMAIN Queries -> 0 .. MaxList] :
          eia_server = [j \in DOMAIN Queries |->
                           [k \in 1 .. lens[j] |-> ServerRow(j, k)]]
    /\ eia_api = "ok"
    /\ query = 1
    /\ offset = 0
    /\ all_rows = <<>>
    /\ pc = "request"
    /\ eia_feed = EmptyBag
    /\ eia_load_hourly = NoTable
    /\ eia_daily_load = NoTable
    /\ noaa_daily_temp = NoTable
    /\ noaa_heatwave_flags = NoTable
    /\ heat_load_daily = NoTable
    /\ raised = "none"
    /\ caught = "none"
    /\ previous = <<>>
    /\ NoIngest

NextFetch == fetch_page \/ fetch_return

\* The call runs on: nothing but the response of a request is waited for.
SpecFetch == InitFetch /\ [][NextFetch]_vars /\ WF_vars(NextFetch)

-----------------------------------------------------------------------------
(* A run of processing.py, statement by statement.  Every con.execute is   *)
(* its own transaction: a stage first drops its table and then creates it, *)
(* and the run can be aborted between any two statements.  An exception    *)
(* leaves the stage function and ends the run: no stage has a try/except.  *)
(* pc names the statement to run next.                                     *)

InRun ==
    pc \in {"daily_drop", "daily_create", "flags_drop", "flags_create",
            "load_drop", "load_create", "join_drop", "join_create"}

\* The four tables of processing.py as a run finds them, and whether the
\* run before went through to its end.
Snapshot(complete) ==
    [noaa_daily_temp     |-> noaa_daily_temp,
     noaa_heatwave_flags |-> noaa_heatwave_flags,
     eia_daily_load      |-> eia_daily_load,
     heat_load_daily     |-> heat_load_daily,
     complete            |-> complete]

\* python processing.py, on a database any earlier run has left.
main_start ==
    /\ pc \in {"ready", "done", "failed", "aborted"}
    /\ previous' = Snapshot(pc = "done")
    /\ pc' = "daily_drop"
    /\ raised' = "none"
    /\ UNCHANGED <<HEAT_THRESHOLD_C, eia_feed, eia_load_hourly,
                   eia_daily_load, noaa_daily_temp, noaa_heatwave_flags,
                   heat_load_daily, noaa_ingest_vars, fetch_vars, caught>>

\* The run is killed before its next statement.
main_abort ==
    /\ InRun
    /\ pc' = "aborted"
    /\ UNCHANGED <<HEAT_THRESHOLD_C, eia_feed, eia_load_hourly,
                   eia_daily_load, noaa_daily_temp, noaa_heatwave_flags,
                   heat_load_daily, raised, ingest_vars>>

\* build_noaa_daily: DROP TABLE IF EXISTS noaa_daily_temp.
build_noaa_daily_drop ==
    /\ pc = "daily_drop"
    /\ noaa_daily_temp' = NoTable
    /\ pc' = "daily_create"
    /\ UNCHANGED <<HEAT_THRESHOLD_C, eia_feed, eia_load_hourly,
                   eia_daily_load, noaa_heatwave_flags, heat_load_daily,
                   raised, ingest_vars>>

\* build_noaa_daily: CREATE TABLE noaa_daily_temp AS ...
build_noaa_daily_create ==
    /\ pc = "daily_create"
    /\ IF noaa_hourly_avg = NoTable
       THEN /\ raised' = "CatalogException"
            /\ pc' = "failed"
            /\ UNCHANGED noaa_daily_temp
       ELSE /\ noaa_daily_temp' =
                   Table(noaa_daily_query(Rows(noaa_hourly_avg)))
            /\ pc' = "flags_drop"
            /\ UNCHANGED raised
    /\ UNCHANGED <<HEAT_THRESHOLD_C, eia_feed, eia_load_hourly,
                   eia_daily_load, noaa_heatwave_flags, heat_load_daily,
                   ingest_vars>>

\* build_noaa_heatwave_flags: DROP TABLE IF EXISTS noaa_heatwave_flags.
build_noaa_heatwave_flags_drop ==
    /\ pc = "flags_drop"
    /\ noaa_heatwave_flags' = NoTable
    /\ pc' = "flags_create"
    /\ UNCHANGED <<HEAT_THRESHOLD_C, eia_feed, eia_load_hourly,
                   eia_daily_load, noaa_daily_temp, heat_load_daily,
                   raised, ingest_vars>>

\* build_noaa_heatwave_flags: CREATE TABLE noaa_heatwave_flags AS ...
build_noaa_heatwave_flags_create ==
    /\ pc = "flags_create"
    /\ IF noaa_daily_temp = NoTable
       THEN /\ raised' = "CatalogException"
            /\ pc' = "failed"
            /\ UNCHANGED noaa_heatwave_flags
       ELSE /\ noaa_heatwave_flags' =
                   Table(heatwave_flags_query(Rows(noaa_daily_temp)))
            /\ pc' = "load_drop"
            /\ UNCHANGED raised
    /\ UNCHANGED <<HEAT_THRESHOLD_C, eia_feed, eia_load_hourly,
                   eia_daily_load, noaa_daily_temp, heat_load_daily,
                   ingest_vars>>

\* build_eia_daily_load: DROP TABLE IF EXISTS eia_daily_load.
build_eia_daily_load_drop ==
    /\ pc = "load_drop"
    /\ eia_daily_load' = NoTable
    /\ pc' = "load_create"
    /\ UNCHANGED <<HEAT_THRESHOLD_C, eia_feed, eia_load_hourly,
                   noaa_daily_temp, noaa_heatwave_flags, heat_load_daily,
                   raised, ingest_vars>>

\* build_eia_daily_load: CREATE TABLE eia_daily_load AS ...
build_eia_daily_load_create ==
    /\ pc = "load_create"
    /\ IF eia_load_hourly = NoTable
       THEN /\ raised' = "CatalogException"
            /\ pc' = "failed"
            /\ UNCHANGED eia_daily_load
       ELSE /\ eia_daily_load' =
                   Table(eia_daily_load_query(Rows(eia_load_hourly)))
            /\ pc' = "join_drop"
            /\ UNCHANGED raised
    /\ UNCHANGED <<HEAT_THRESHOLD_C, eia_feed, eia_load_hourly,
                   noaa_daily_temp, noaa_heatwave_flags, heat_load_daily,
                   ingest_vars>>

\* heat_load_daily: DROP TABLE IF EXISTS heat_load_daily.
heat_load_daily_drop ==
    /\ pc = "join_drop"
    /\ heat_load_daily' = NoTable
    /\ pc' = "join_create"
    /\ UNCHANGED <<HEAT_THRESHOLD_C, eia_feed, eia_load_hourly,
                   eia_daily_load, noaa_daily_temp, noaa_heatwave_flags,
                   raised, ingest_vars>>

\* heat_load_daily: CREATE TABLE heat_load_daily AS ...
heat_load_daily_create ==
    /\ pc = "join_create"
    /\ IF noaa_heatwave_flags = NoTable \/ eia_daily_load = NoTable
       THEN /\ raised' = "CatalogException"
            /\ pc' = "failed"
            /\ UNCHANGED heat_load_daily
       ELSE /\ heat_load_daily' =
                   Table(heat_load_daily_query(Rows(noaa_heatwave_flags),
                                               Rows(eia_daily_load)))
            /\ pc' = "done"
            /\ UNCHANGED raised
    /\ UNCHANGED <<HEAT_THRESHOLD_C, eia_feed, eia_load_hourly,
                   eia_daily_load, noaa_daily_temp, noaa_heatwave_flags,
                   ingest_vars>>

HourlyRow(s, h, t) == [station |-> s, hour_utc |-> h, temp_C |-> t]

\* t is a noaa_hourly_avg with at most maxRows rows over the given stations
\* and hours, one row per (station, hour) by its GROUP BY.
IsHourlyTable(t, stations, hours, temps, maxRows) ==
    \E K \in {c \in SUBSET (stations \X hours) : Cardinality(c) <= maxRows} :
        \E f \in [K -> temps] :
            t = Table(SetToBag({HourlyRow(c[1], c[2], f[c]) : c \in K}))

\* The first hour of three consecutive days.
MainHours == {0, HoursPerDay, 2 * HoursPerDay}

\* An hour without a reading, a mild one and one above 32.22.
MainTemps == {NULL, <<2500>>, <<3300>>}

\* No EIA table, PJM alone, and PJM with ISNE.
MainLoads ==
    {NoTable,
     Table(SetToBag({[region |-> "PJM", hour_utc |-> 0, load_mwh |-> <<100>>]})),
     Table(SetToBag({[region |-> "PJM", hour_utc |-> 0, load_mwh |-> <<100>>],
                     [region |-> "ISNE", hour_utc |-> HoursPerDay,
                      load_mwh |-> <<150>>]}))}

\* A database the ingestion has filled, or not, and processing.py never ran
\* on.
InitMain ==
    /\ HEAT_THRESHOLD_C = DefaultThreshold
    /\ \/ noaa_hourly_avg = NoTable
       \/ IsHourlyTable(noaa_hourly_avg, HeatStations, MainHours, MainTemps,
                        MaxMainRows)
    /\ eia_load_hourly \in MainLoads
    /\ noaa_csv = NoTable
    /\ noaa_hourly_raw = NoTable
    /\ noaa_hourly_temp = NoTable
    /\ base_combine = NoTable
    /\ noaa_daily_temp = NoTable
    /\ noaa_heatwave_flags = NoTable
    /\ eia_daily_load = NoTable
    /\ heat_load_daily = NoTable
    /\ eia_feed = EmptyBag
    /\ raised = "none"
    /\ caught = "none"
    /\ previous = Snapshot(FALSE)
    /\ pc = "ready"
    /\ NoFetch

NextMain ==
    \/ main_start
    \/ main_abort
    \/ build_noaa_daily_drop
    \/ build_noaa_daily_create
    \/ build_noaa_heatwave_flags_drop
    \/ build_noaa_heatwave_flags_create
    \/ build_eia_daily_load_drop
    \/ build_eia_daily_load_create
    \/ heat_load_daily_drop
    \/ heat_load_daily_create

SpecMain == InitMain /\ [][NextMain]_vars

-----------------------------------------------------------------------------
(* Claims about build_noaa_heatwave_flags, checked under SpecHeat.         *)

FlagsBuilt == noaa_heatwave_flags # NoTable /\ noaa_daily_temp # NoTable

\* Station s has a row for calendar day d whose daily max is non-null and
\* at least the heat threshold.
IsHotOn(s, d) ==
    \E r \in DOMAIN Rows(noaa_daily_temp) :
        /\ r.station = s
        /\ r.day_utc \div HoursPerDay = d
        /\ r.daily_max_temp_C # NULL
        /\ r.daily_max_temp_C[1] >= HEAT_THRESHOLD_C

RowDays == {r.day_utc \div HoursPerDay : r \in DOMAIN Rows(noaa_daily_temp)}

\* Day d of station s lies in a block a..b of at least 3 calendar days that
\* are all hot (so in the maximal such block).
InLongHotRun(s, d) ==
    \E a \in RowDays, z \in RowDays :
        /\ a <= d /\ d <= z
        /\ z - a + 1 >= 3
        /\ \A x \in a .. z : IsHotOn(s, x)

\* C1: every row of noaa_daily_temp has a flags row, and each flags row of
\* its station and day has is_heatwave_day = 1 exactly when the day lies in
\* a maximal run of at least 3 calendar-consecutive hot days of that station
\* (a cold day, a NULL max and a day without a row each break the run).
C1_HeatwaveIffLongRun ==
    FlagsBuilt =>
        \A r \in DOMAIN Rows(noaa_daily_temp) :
            LET out == {f \in DOMAIN Rows(noaa_heatwave_flags) :
                           f.station = r.station /\ f.day_utc = r.day_utc}
            IN  /\ out # {}
                /\ \A f \in out :
                       (f.is_heatwave_day = 1)
                         <=> InLongHotRun(r.station, r.day_utc \div HoursPerDay)

\* C1 witness: a flagged run next to a hot day of the same station that is
\* cut off from it and stays unflagged.
C1_Witness ==
    /\ FlagsBuilt
    /\ \E f \in DOMAIN Rows(noaa_heatwave_flags),
          g \in DOMAIN Rows(noaa_heatwave_flags) :
          /\ f.station = g.station
          /\ f.is_heatwave_day = 1
          /\ g.is_hot_day = 1 /\ g.is_heatwave_day = 0

\* The rows of one station.
OfStation(s, rows) == FilterBag({r \in DOMAIN rows : r.station = s}, rows)

\* C2: the flags of a station's days are those the query gives on that
\* station's rows alone.  Two tables with the same rows of station s have
\* the same restriction to s, so the flags of s are the same whatever rows
\* the other stations have.
C2_PerStation ==
    FlagsBuilt =>
        \A s \in {r.station : r \in DOMAIN Rows(noaa_daily_temp)} :
            OfStation(s, Rows(noaa_heatwave_flags))
              = heatwave_flags_query(OfStation(s, Rows(noaa_daily_temp)))

\* C2 witness: two stations whose hot days fall on the same date and share
\* a date-minus-rank group number, one of them in a heatwave and the other
\* not.
C2_Witness ==
    /\ FlagsBuilt
    /\ \E f \in DOMAIN Rows(noaa_heatwave_flags),
          g \in DOMAIN Rows(noaa_heatwave_flags) :
          /\ f.station # g.station
          /\ f.day_utc = g.day_utc
          /\ f.is_hot_day = 1 /\ g.is_hot_day = 1
          /\ ~ \E h \in DOMAIN Rows(noaa_heatwave_flags) :
                   h.station = f.station /\ h.day_utc < f.day_utc
                   /\ h.is_hot_day = 1
          /\ ~ \E h \in DOMAIN Rows(noaa_heatwave_flags) :
                   h.station = g.station /\ h.day_utc < g.day_utc
                   /\ h.is_hot_day = 1
          /\ f.is_heatwave_day = 1 /\ g.is_heatwave_day = 0

\* The four columns of noaa_daily_temp.
DailyColumns(r) ==
    [station |-> r.station, day_utc |-> r.day_utc,
     daily_max_temp_C |-> r.daily_max_temp_C, avg_temp_C |-> r.avg_temp_C]

\* C3: noaa_heatwave_flags without its two flag columns is noaa_daily_temp,
\* row for row: no row added, dropped or duplicated, no column changed, and
\* is_hot_day and is_heatwave_day are the only columns attached.
C3_Projection ==
    FlagsBuilt =>
        /\ MapBag([f \in DOMAIN Rows(noaa_heatwave_flags) |-> DailyColumns(f)],
                  Rows(noaa_heatwave_flags)) = Rows(noaa_daily_temp)
        /\ \A f \in DOMAIN Rows(noaa_heatwave_flags) :
               DOMAIN f = {"station", "day_utc", "daily_max_temp_C",
                           "avg_temp_C", "is_hot_day", "is_heatwave_day"}

\* C3 witness: a table with heatwave days, an unflagged hot or cold day and
\* a day whose max is NULL.
C3_Witness ==
    /\ FlagsBuilt
    /\ \E f \in DOMAIN Rows(noaa_heatwave_flags) : f.is_heatwave_day = 1
    /\ \E f \in DOMAIN Rows(noaa_heatwave_flags) :
          f.daily_max_temp_C # NULL /\ f.is_heatwave_day = 0
    /\ \E f \in DOMAIN Rows(noaa_heatwave_flags) : f.daily_max_temp_C = NULL

-----------------------------------------------------------------------------
(* The claim about the heat threshold, checked under SpecThreshold.        *)

\* C4: is_hot_day is 1 exactly when the daily max is non-null and at least
\* the configured threshold HEAT_THRESHOLD_C (a NULL max is never hot, a max
\* equal to the threshold is hot).
C4_HotIffAtLeastThreshold ==
    FlagsBuilt =>
        \A f \in DOMAIN Rows(noaa_heatwave_flags) :
            (f.is_hot_day = 1)
              <=> (/\ f.daily_max_temp_C # NULL
                   /\ f.daily_max_temp_C[1] >= HEAT_THRESHOLD_C)

-----------------------------------------------------------------------------
(* Claims about the join, checked under Spec.                              *)

HeatLoadBuilt ==
    /\ heat_load_daily # NoTable
    /\ noaa_heatwave_flags # NoTable
    /\ eia_daily_load # NoTable

\* C5: heat_load_daily has exactly one row per (station, day) row of
\* noaa_heatwave_flags, and so as many rows as noaa_heatwave_flags.
C5_JoinRowCount ==
    HeatLoadBuilt =>
        /\ BagCardinality(Rows(heat_load_daily))
             = BagCardinality(Rows(noaa_heatwave_flags))
        /\ \A n \in DOMAIN Rows(noaa_heatwave_flags) :
               CountWhere({h \in DOMAIN Rows(heat_load_daily) :
                              h.station = n.station /\ h.day_utc = n.day_utc},
                          Rows(heat_load_daily)) = 1

\* C5 witness: the load table holds two days of one region, one flags row
\* of that region's station takes its load and another row finds none.
C5_Witness ==
    /\ HeatLoadBuilt
    /\ \E e \in DOMAIN Rows(eia_daily_load), g \in DOMAIN Rows(eia_daily_load) :
          e.region = g.region /\ e.day_utc # g.day_utc
          /\ \E h \in DOMAIN Rows(heat_load_daily) :
                 h.region = <<e.region>> /\ h.daily_total_mwh # NULL
    /\ \E h \in DOMAIN Rows(heat_load_daily) : h.daily_total_mwh = NULL

\* C6: with a station other than IAD and BOS in the temperature input no
\* heat_load_daily table is produced.
C6_UnmappedStationFails ==
    (/\ noaa_heatwave_flags # NoTable
     /\ \E n \in DOMAIN Rows(noaa_heatwave_flags) :
            n.station \notin {"IAD", "BOS"})
        => heat_load_daily = NoTable

\* C7: the load fields of a heat_load_daily row are those of the
\* eia_daily_load row of the row's own region column and day, and both are
\* NULL when there is no such load row.
C7_LoadOfOwnRegion ==
    HeatLoadBuilt =>
        \A h \in DOMAIN Rows(heat_load_daily) :
            LET own == {e \in DOMAIN Rows(eia_daily_load) :
                           <<e.region>> = h.region /\ e.day_utc = h.day_utc}
            IN  IF own = {}
                THEN h.daily_total_mwh = NULL /\ h.daily_peak_mwh = NULL
                ELSE \E e \in own :
                         /\ h.daily_total_mwh = e.daily_total_mwh
                         /\ h.daily_peak_mwh = e.daily_peak_mwh

-----------------------------------------------------------------------------
(* Claims about the load branch, checked under SpecLoad.                   *)

DailyLoadBuilt == eia_daily_load # NoTable /\ eia_load_hourly # NoTable

\* The values the feed holds for one region and hour.
Observations(region, hour) ==
    {r.value : r \in {x \in DOMAIN eia_feed :
                         x.parent = region /\ Strptime(x.period) = hour}}

\* The hours of one region and day the feed has an observation of.
ObservedHours(region, day_utc) ==
    {Strptime(r.period) :
        r \in {x \in DOMAIN eia_feed :
                  /\ x.parent = region
                  /\ DateTruncDay(Strptime(x.period)) = day_utc}}

\* The sum of the non-null values of a function, NULL when it has none.
SumOfValues(f) ==
    LET some == {x \in DOMAIN f : f[x] # NULL}
    IN  IF some = {} THEN NULL ELSE <<SumFn([x \in some |-> f[x][1]])>>

\* C8: daily_total_mwh adds one representative observation per (region,
\* hour), never several observations of the same hour.
C8_OneRepresentativePerHour ==
    DailyLoadBuilt =>
        \A d \in DOMAIN Rows(eia_daily_load) :
            LET hours == ObservedHours(d.region, d.day_utc)
            IN  \E rep \in [hours -> UNION {Observations(d.region, h) :
                                              h \in hours}] :
                    /\ \A h \in hours : rep[h] \in Observations(d.region, h)
                    /\ d.daily_total_mwh = SumOfValues(rep)

\* C9: eia_daily_load has exactly one row per (region, day) of
\* eia_load_hourly and no other row; its total is the sum and its peak the
\* maximum of the non-null hourly loads of that region and day (both NULL
\* when every hour is NULL), however few hours the day has.
C9_DailySumAndPeak ==
    DailyLoadBuilt =>
        LET hourly == DOMAIN Rows(eia_load_hourly)
            keys == {<<r.region, r.hour_utc \div HoursPerDay>> : r \in hourly}
            Loads(k) == {r \in hourly : /\ r.region = k[1]
                                        /\ r.hour_utc \div HoursPerDay = k[2]
                                        /\ r.load_mwh # NULL}
        IN  /\ BagCardinality(Rows(eia_daily_load)) = Cardinality(keys)
            /\ \A k \in keys :
                 \E d \in DOMAIN Rows(eia_daily_load) :
                    /\ d.region = k[1]
                    /\ d.day_utc = k[2] * HoursPerDay
                    /\ IF Loads(k) = {}
                       THEN d.daily_total_mwh = NULL /\ d.daily_peak_mwh = NULL
                       ELSE /\ d.daily_total_mwh
                                 = <<SumFn([r \in Loads(k) |-> r.load_mwh[1]])>>
                            /\ d.daily_peak_mwh # NULL
                            /\ \E r \in Loads(k) :
                                   r.load_mwh = d.daily_peak_mwh
                            /\ \A r \in Loads(k) :
                                   r.load_mwh[1] <= d.daily_peak_mwh[1]

\* C9 witness: the hourly loads 100, 150 and 120 of one region and day give
\* the total 370 and the peak 150.
C9_Witness ==
    /\ DailyLoadBuilt
    /\ \E d \in DOMAIN Rows(eia_daily_load) :
          /\ d.daily_total_mwh = <<370>> /\ d.daily_peak_mwh = <<150>>
          /\ {r.load_mwh : r \in {x \in DOMAIN Rows(eia_load_hourly) :
                                     /\ x.region = d.region
                                     /\ DateTruncDay(x.hour_utc) = d.day_utc}}
               = {<<100>>, <<150>>, <<120>>}

\* C10: daily_peak_mwh <= daily_total_mwh in every eia_daily_load row whose
\* region and day have a positive hourly reading.
C10_PeakAtMostTotal ==
    DailyLoadBuilt =>
        \A d \in DOMAIN Rows(eia_daily_load) :
            (\E r \in DOMAIN Rows(eia_load_hourly) :
                /\ r.region = d.region
                /\ DateTruncDay(r.hour_utc) = d.day_utc
                /\ r.load_mwh # NULL
                /\ r.load_mwh[1] > 0)
              => d.daily_peak_mwh[1] <= d.daily_total_mwh[1]

-----------------------------------------------------------------------------
(* Claims about the temperature branch, checked under SpecNoaa.            *)

DailyBuilt == noaa_daily_temp # NoTable /\ noaa_hourly_avg # NoTable

HourlyStations == {r.station : r \in DOMAIN Rows(noaa_hourly_avg)}

\* The calendar days on which station s has an hourly row; with valid, only
\* the hourly rows whose temperature is not NULL count.
HourlyDays(s, valid) ==
    {r.hour_utc \div HoursPerDay :
        r \in {x \in DOMAIN Rows(noaa_hourly_avg) :
                  x.station = s /\ (valid => x.temp_C # NULL)}}

DailyRowsOf(s) ==
    CountWhere({r \in DOMAIN Rows(noaa_daily_temp) : r.station = s},
               Rows(noaa_daily_temp))

\* C11, as claimed: for every station the number of noaa_daily_temp rows is
\* the number of distinct days on which it has a non-null hourly reading.
C11_RowsPerValidDay ==
    DailyBuilt =>
        \A s \in HourlyStations :
            DailyRowsOf(s) = Cardinality(HourlyDays(s, TRUE))

\* C11, amended: for every station the number of noaa_daily_temp rows is
\* the number of distinct days on which it has an hourly row, null or not;
\* the row of a day whose hourly temperatures are all NULL has a NULL max
\* and a NULL mean, and no other row has.
C11_RowsPerDay ==
    DailyBuilt =>
        /\ \A s \in HourlyStations :
               DailyRowsOf(s) = Cardinality(HourlyDays(s, FALSE))
        /\ \A r \in DOMAIN Rows(noaa_daily_temp) :
               /\ r.day_utc \div HoursPerDay \in HourlyDays(r.station, FALSE)
               /\ (r.daily_max_temp_C = NULL)
                    <=> (r.day_utc \div HoursPerDay
                           \notin HourlyDays(r.station, TRUE))
               /\ (r.avg_temp_C = NULL) <=> (r.daily_max_temp_C = NULL)

\* C11 witness: a station with a day of NULL hours only and a day with a
\* reading, and a row for each of them.
C11_Witness ==
    /\ DailyBuilt
    /\ \E s \in HourlyStations :
          /\ Cardinality(HourlyDays(s, TRUE)) = 1
          /\ Cardinality(HourlyDays(s, FALSE)) = 2
          /\ DailyRowsOf(s) = 2

TempBuilt == noaa_hourly_temp # NoTable /\ noaa_csv # NoTable

\* The temperature field is the missing-value sentinel: 9999 with either
\* sign.
IsSentinel(tmp) == TryCastInteger(SplitPart1(tmp)) \in {<<9999>>, <<-9999>>}

\* The CSV rows of one station and timestamp.
SamplesAt(station, ts) ==
    {c \in DOMAIN Rows(noaa_csv) :
        StationLabel(c.STATION) = station /\ CastTimestamp(c.DATE) = ts}

\* C12: no noaa_hourly_temp row holds a temperature of 999.9 or -999.9
\* degrees, and at every station and timestamp there are at least as many
\* rows with a NULL temperature as there are sentinel samples.
C12_SentinelIsNull ==
    TempBuilt =>
        /\ \A t \in DOMAIN Rows(noaa_hourly_temp) :
               t.temp_C \notin {<<9999 * HundredthsPerTenth>>,
                                <<0 - 9999 * HundredthsPerTenth>>}
        /\ \A c \in DOMAIN Rows(noaa_csv) :
               LET station == StationLabel(c.STATION)
                   ts == CastTimestamp(c.DATE)
               IN  CountWhere({t \in DOMAIN Rows(noaa_hourly_temp) :
                                  /\ t.station = station
                                  /\ t.ts_utc = ts
                                  /\ t.temp_C = NULL},
                              Rows(noaa_hourly_temp))
                     >= CountWhere({x \in SamplesAt(station, ts) :
                                       IsSentinel(x.TMP)},
                                   Rows(noaa_csv))

-----------------------------------------------------------------------------
(* Claims about a run of processing.py, checked under SpecMain.            *)

\* C13: when a run ends after a run that went through on the same hourly
\* inputs, each of the four tables holds what that run left (so the flags
\* built twice from the same noaa_daily_temp are the same flags).
C13_RerunIdentical ==
    (pc = "done" /\ previous.complete) =>
        /\ noaa_daily_temp = previous.noaa_daily_temp
        /\ noaa_heatwave_flags = previous.noaa_heatwave_flags
        /\ eia_daily_load = previous.eia_daily_load
        /\ heat_load_daily = previous.heat_load_daily

\* C13 witness: the end of a second run whose flags hold a heatwave day and
\* whose join holds a load.
C13_Witness ==
    /\ pc = "done" /\ previous.complete
    /\ \E f \in DOMAIN Rows(noaa_heatwave_flags) : f.is_heatwave_day = 1
    /\ \E h \in DOMAIN Rows(heat_load_daily) : h.daily_total_mwh # NULL

\* What the stage that writes each table builds from the tables it reads
\* now (NoTable when one of them is missing).
Complete ==
    [noaa_daily_temp |->
        IF noaa_hourly_avg = NoTable THEN NoTable
        ELSE Table(noaa_daily_query(Rows(noaa_hourly_avg))),
     noaa_heatwave_flags |->
        IF noaa_daily_temp = NoTable THEN NoTable
        ELSE Table(heatwave_flags_query(Rows(noaa_daily_temp))),
     eia_daily_load |->
        IF eia_load_hourly = NoTable THEN NoTable
        ELSE Table(eia_daily_load_query(Rows(eia_load_hourly))),
     heat_load_daily |->
        IF noaa_heatwave_flags = NoTable \/ eia_daily_load = NoTable
        THEN NoTable
        ELSE Table(heat_load_daily_query(Rows(noaa_heatwave_flags),
                                         Rows(eia_daily_load)))]

\* C14: at every point of a run each output table is the table the run
\* found or the complete table of the run, never absent in between; and a
\* table a stage of this run has finished stays as that stage built it.
C14_AtomicReplace ==
    (InRun \/ pc \in {"aborted", "failed", "done"}) =>
        /\ noaa_daily_temp = previous.noaa_daily_temp
             \/ (noaa_daily_temp # NoTable
                 /\ noaa_daily_temp = Complete.noaa_daily_temp)
        /\ noaa_heatwave_flags = previous.noaa_heatwave_flags
             \/ (noaa_heatwave_flags # NoTable
                 /\ noaa_heatwave_flags = Complete.noaa_heatwave_flags)
        /\ eia_daily_load = previous.eia_daily_load
             \/ (eia_daily_load # NoTable
                 /\ eia_daily_load = Complete.eia_daily_load)
        /\ heat_load_daily = previous.heat_load_daily
             \/ (heat_load_daily # NoTable
                 /\ heat_load_daily = Complete.heat_load_daily)

-----------------------------------------------------------------------------
(* The claim about failures, checked under SpecFlow.                       *)

\* C15: a failure inside load_noaa_hourly, build_noaa_hourly_avg or
\* load_eia_to_duckdb leaves the stage function as an exception, and the
\* flow ends there instead of calling the next task.
C15_FailureIsFatal ==
    (caught # "none" \/ raised # "none") =>
        /\ raised # "none"
        /\ pc = "crashed"

-----------------------------------------------------------------------------
(* The claim about fetch_eia_data, checked under SpecFetch.                *)

RECURSIVE Concat(_)
\* The lists of a sequence of lists, one after the other.
Concat(lists) ==
    IF lists = <<>> THEN <<>> ELSE Head(lists) \o Concat(Tail(lists))

\* C16: fetch_eia_data returns, and it returns every row of every queried
\* list exactly once, in request order; offset only moves on by page_size,
\* and only after a page of page_size rows has been added.
C16_FetchesEveryRowOnce ==
    /\ <>[](pc = "returned")
    /\ [](pc \in {"return", "returned"} => all_rows = Concat(eia_server))
    /\ [][(offset' # offset /\ offset' # 0) =>
             /\ offset' = offset + page_size
             /\ query' = query
             /\ Len(all_rows') = Len(all_rows) + page_size]_vars

\* C16 witness: the call has returned the rows of a list of exactly two
\* pages, of a list that ends in a short page and of an empty list.
C16_Witness ==
    /\ pc = "returned"
    /\ Len(eia_server[1]) = 2 * page_size
    /\ Len(eia_server[2]) = 0
    /\ Len(eia_server[3]) = page_size + 1
    /\ Len(all_rows) = 3 * page_size + 1
    /\ eia_feed = SeqToBag(Concat(eia_server))

=============================================================================
